---------------------------- MODULE Spec2Model ----------------------------
(***************************************************************************)
(* The rethinkdb sink adaptor of transporter (pkg/adaptor/rethinkdb.go).   *)
(*                                                                         *)
(* State: the adaptor object (its session handle client, where it is in  *)
(* its lifecycle), the error channel r.pipe.Err, and the store behind the  *)
(* session (one table keyed by the primary key "id").                      *)
(*                                                                         *)
(* Values.  An identifier is a tagged value: the string "n" is             *)
(* [t |-> "str", v |-> n], the number n is [t |-> "num", v |-> n], a key   *)
(* the store generated is [t |-> "gen", v |-> n], JSON null is NilId and a *)
(* document without the field has NoId.  A Go error is the sequence of the *)
(* fragments of its text; the nil error is the empty sequence.             *)
(***************************************************************************)
EXTENDS Integers, Sequences, FiniteSets, TLC

VARIABLES pc, client, tableExists, table, setupLog, listenRet, pipeErr, last

vars == <<pc, client, tableExists, table, setupLog, listenRet, pipeErr, last>>

(***************************************************************************)
(* Bounds of the model.                                                    *)
(***************************************************************************)
MaxGen == 2     \* primary keys the store generates for documents without id

(***************************************************************************)
(* The universe of values: the identifier "1" and the number 1, and a      *)
(* field x that is absent (0), 1 or 2.                                     *)
(***************************************************************************)
IdNames == {1}
XVals == {0, 1, 2}

(***************************************************************************)
(* Identifiers, payloads and messages (message.Msg: Op and Data).          *)
(***************************************************************************)
NoId == [t |-> "none", v |-> 0]
NilId == [t |-> "nil", v |-> 0]
StrId(n) == [t |-> "str", v |-> n]
NumId(n) == [t |-> "num", v |-> n]
GenId(n) == [t |-> "gen", v |-> n]

EventIds == {NoId, NilId} \cup {StrId(n) : n \in IdNames}
                          \cup {NumId(n) : n \in IdNames}
Keys == {StrId(n) : n \in IdNames} \cup {NumId(n) : n \in IdNames}
                                   \cup {GenId(n) : n \in 1..MaxGen}

Docs == [kind : {"doc"}, id : EventIds, x : XVals]
NonDocs == {[kind |-> "scalar", id |-> NoId, x |-> 0]}
Absent == [kind |-> "absent", id |-> NoId, x |-> 0]

Insert == "insert"
Update == "update"
Delete == "delete"
Command == "command"
Ops == {Insert, Update, Delete, Command}
\* the events delivered: an insert or update carries any payload; a delete,
\* a command and a document without identifier carry no field x
Msgs ==
    {m \in [Op : Ops, Data : Docs \cup NonDocs] :
        (m.Op \in {Delete, Command} \/ m.Data.id = NoId) => m.Data.x = 0}

Nil == << >>
NoMsg == [Op |-> "none", Data |-> Absent]


(***************************************************************************)
(* Errors and error records.  NewError(lvl, path, str, record) builds an   *)
(* adaptor.Error of four fields; Listen pushes a plain Go error instead.   *)
(***************************************************************************)
ERROR == "ERROR"
Path == "sink/rethink"
NoRecord == [tag |-> "none", data |-> Absent, error |-> Nil]
DataRecord(d) == [tag |-> "data", data |-> d, error |-> Nil]
ErrRecord(e) == [tag |-> "error", data |-> Absent, error |-> e]

NewError(lvl, path, str, record) ==
    [type |-> "adaptor.Error", lvl |-> lvl, path |-> path, str |-> str,
     record |-> record, text |-> Nil]
PlainError(e) ==
    [type |-> "error", lvl |-> "", path |-> "", str |-> "",
     record |-> NoRecord, text |-> e]

MsgNotDocument == "rethinkdb error (document must be a json document)"
MsgNilId == "rethinkdb error (cannot delete an object with a nil id)"
MsgStore == "rethinkdb error (%s)"

(***************************************************************************)
(* message.Msg: IsMap, Map and IDString.                                   *)
(***************************************************************************)
IsMap(m) == m.Data.kind = "doc"

\* the identifier rendered as a string: a string is itself, a number is its
\* digits; an absent or nil identifier has no string form
IDString(m) ==
    IF ~IsMap(m) \/ m.Data.id.t \in {"none", "nil"}
    THEN [ok |-> FALSE, s |-> 0]
    ELSE [ok |-> TRUE, s |-> m.Data.id.v]

(***************************************************************************)
(* The store behind the session: one table, primary key "id".  A write    *)
(* returns (WriteResponse, error); WriteResponse carries Errors and        *)
(* FirstError.                                                             *)
(***************************************************************************)
DupKey == "Duplicate primary key"
DupMsg == <<DupKey, " id">>
PkTypeMsg == <<"Primary keys must be either a number, string, bool, pseudotype or array">>
QuotedMsg == <<"Expected type OBJECT but found STRING: ", DupKey>>
FirstErrors == {Nil, DupMsg, PkTypeMsg, QuotedMsg}

TimeoutErr == <<"gorethink: i/o timeout">>
NoTableErr == <<"gorethink: Table does not exist">>

ZeroResp == [Errors |-> 0, FirstError |-> Nil]
ErrResp(n, f) == [Errors |-> n, FirstError |-> f]

NoCall == [kind |-> "none", key |-> NoId, doc |-> Absent, conflict |-> ""]
DeleteCall(s) == [kind |-> "delete", key |-> StrId(s), doc |-> Absent, conflict |-> ""]
InsertCall(d, c) == [kind |-> "insert", key |-> NoId, doc |-> d, conflict |-> c]

EmptyTable == [k \in Keys |-> Absent]

FreeGen(t) == {n \in 1..MaxGen : t[GenId(n)] = Absent}
Min(S) == CHOOSE n \in S : \A o \in S : n <= o

Merge(old, new) == [new EXCEPT !.x = IF new.x = 0 THEN old.x ELSE new.x]

\* what the store does with a call when nothing goes wrong: the set of
\* (response, table) pairs
StoreApply(c, t) ==
    CASE c.kind = "delete" ->
           {[resp |-> ZeroResp,
             table |-> IF c.key \in Keys THEN [t EXCEPT ![c.key] = Absent] ELSE t]}
      [] c.kind = "insert" /\ c.doc.id = NilId ->
           {[resp |-> ErrResp(1, PkTypeMsg), table |-> t]}
      [] c.kind = "insert" /\ c.doc.id = NoId ->
           IF FreeGen(t) = {} THEN {}
           ELSE LET k == GenId(Min(FreeGen(t)))
                IN {[resp |-> ZeroResp,
                     table |-> [t EXCEPT ![k] = [c.doc EXCEPT !.id = k]]]}
      [] c.kind = "insert" /\ c.doc.id \notin {NilId, NoId} ->
           LET k == c.doc.id
           IN IF t[k] = Absent
              THEN {[resp |-> ZeroResp, table |-> [t EXCEPT ![k] = c.doc]]}
              ELSE CASE c.conflict = "replace" ->
                          {[resp |-> ZeroResp, table |-> [t EXCEPT ![k] = c.doc]]}
                     [] c.conflict = "update" ->
                          {[resp |-> ZeroResp,
                            table |-> [t EXCEPT ![k] = Merge(t[k], c.doc)]]}
                     [] OTHER ->
                          {[resp |-> ErrResp(1, DupMsg), table |-> t]}
      [] OTHER -> {}

\* RunWrite(r.client): every outcome the call can have.  fault names what
\* went wrong: nothing, the transport (the write may or may not have been
\* applied), the table missing, or the store acknowledging with errors.
RunWrite(c, t, exists) ==
    IF ~exists
    THEN {[fault |-> "notable", err |-> NoTableErr, resp |-> ZeroResp, table |-> t]}
    ELSE {[fault |-> "none", err |-> Nil, resp |-> o.resp, table |-> o.table]
             : o \in StoreApply(c, t)}
         \cup {[fault |-> "transport", err |-> TimeoutErr, resp |-> ZeroResp,
                table |-> tt] : tt \in {t} \cup {o.table : o \in StoreApply(c, t)}}
         \cup {[fault |-> "ack", err |-> Nil, resp |-> r, table |-> t]
                 : r \in {ErrResp(1, Nil), ErrResp(2, QuotedMsg)}}

(***************************************************************************)
(* handleResponse: the write acknowledgment turned into an error or nil.   *)
(***************************************************************************)
Contains(text, part) == \E i \in 1..Len(text) : text[i] = part

\* variant: the duplicate-key exemption forgotten
handleResponseNoExemption(resp) ==
    IF resp.Errors # 0
    THEN <<"problem inserting docs", "\n">> \o resp.FirstError
    ELSE Nil

handleResponse(resp) ==
    IF resp.Errors # 0 /\ ~Contains(resp.FirstError, DupKey)
    THEN <<"problem inserting docs", "\n">> \o resp.FirstError
    ELSE Nil

(***************************************************************************)
(* applyOp, in its three stages: the early returns, the store call chosen  *)
(* by msg.Op, and the report made of what the call returned.               *)
(***************************************************************************)
\* variant: the payload check dropped
PreCheckNoValidate(m) ==
    IF m.Op = Delete /\ ~IDString(m).ok
    THEN <<NewError(ERROR, Path, MsgNilId, DataRecord(m.Data))>>
    ELSE << >>

\* variant: the identifier of a delete checked before the payload
PreCheckIdFirst(m) ==
    IF m.Op = Delete /\ ~IDString(m).ok
    THEN <<NewError(ERROR, Path, MsgNilId, DataRecord(m.Data))>>
    ELSE IF ~IsMap(m)
         THEN <<NewError(ERROR, Path, MsgNotDocument, DataRecord(m.Data))>>
         ELSE << >>

\* variant: no return after the payload error, so a delete goes on to its
\* identifier check
PreCheckFallThrough(m) ==
    (IF ~IsMap(m)
     THEN <<NewError(ERROR, Path, MsgNotDocument, DataRecord(m.Data))>>
     ELSE << >>)
    \o (IF m.Op = Delete /\ ~IDString(m).ok
        THEN <<NewError(ERROR, Path, MsgNilId, DataRecord(m.Data))>>
        ELSE << >>)

PreCheck(m) ==
    IF ~IsMap(m)
    THEN <<NewError(ERROR, Path, MsgNotDocument, DataRecord(m.Data))>>
    ELSE IF m.Op = Delete /\ ~IDString(m).ok
         THEN <<NewError(ERROR, Path, MsgNilId, DataRecord(m.Data))>>
         ELSE << >>

\* variant: Insert given the conflict option of Update
StoreCallInsertReplaces(m) ==
    CASE m.Op = Delete -> DeleteCall(IDString(m).s)
      [] m.Op = Insert -> InsertCall(m.Data, "replace")
      [] m.Op = Update -> InsertCall(m.Data, "replace")
      [] OTHER -> NoCall

\* variant: Update with Conflict: "update", which merges into the old document
StoreCallUpdateMerges(m) ==
    CASE m.Op = Delete -> DeleteCall(IDString(m).s)
      [] m.Op = Insert -> InsertCall(m.Data, "error")
      [] m.Op = Update -> InsertCall(m.Data, "update")
      [] OTHER -> NoCall

\* variant: an operation that matches no case treated as an insert
StoreCallDefaultInserts(m) ==
    CASE m.Op = Delete -> DeleteCall(IDString(m).s)
      [] m.Op = Update -> InsertCall(m.Data, "replace")
      [] OTHER -> InsertCall(m.Data, "error")

StoreCall(m) ==
    CASE m.Op = Delete -> DeleteCall(IDString(m).s)
      [] m.Op = Insert -> InsertCall(m.Data, "error")
      [] m.Op = Update -> InsertCall(m.Data, "replace")
      [] OTHER -> NoCall

\* variant: no return after the error of the call, so the response is
\* interpreted as well
ReportNoReturn(err, resp) ==
    LET e == handleResponse(resp)
    IN [errs |-> (IF err # Nil
                  THEN <<NewError(ERROR, Path, MsgStore, ErrRecord(err))>>
                  ELSE << >>)
                 \o (IF e # Nil
                     THEN <<NewError(ERROR, Path, MsgStore, ErrRecord(e))>>
                     ELSE << >>),
        consulted |-> TRUE]

\* variant: the test of handleResponse's result inverted (err == nil)
ReportInverted(err, resp) ==
    IF err # Nil
    THEN [errs |-> <<NewError(ERROR, Path, MsgStore, ErrRecord(err))>>,
          consulted |-> FALSE]
    ELSE LET e == handleResponse(resp)
         IN [errs |-> IF e = Nil
                      THEN <<NewError(ERROR, Path, MsgStore, ErrRecord(e))>>
                      ELSE << >>,
             consulted |-> TRUE]

Report(err, resp) ==
    IF err # Nil
    THEN [errs |-> <<NewError(ERROR, Path, MsgStore, ErrRecord(err))>>,
          consulted |-> FALSE]
    ELSE LET e == handleResponse(resp)
         IN [errs |-> IF e # Nil
                      THEN <<NewError(ERROR, Path, MsgStore, ErrRecord(e))>>
                      ELSE << >>,
             consulted |-> TRUE]

\* variant: nil returned in place of the message once an error was sent
OutcomeDropsMsg(m, calls, o, rep) ==
    [msg |-> m, calls |-> calls, fault |-> o.fault, err |-> o.err,
     resp |-> o.resp, consulted |-> rep.consulted, errs |-> rep.errs,
     table |-> o.table,
     ret |-> [msg |-> IF rep.errs = << >> THEN m ELSE NoMsg, err |-> Nil]]

Outcome(m, calls, o, rep) ==
    [msg |-> m, calls |-> calls, fault |-> o.fault, err |-> o.err,
     resp |-> o.resp, consulted |-> rep.consulted, errs |-> rep.errs,
     table |-> o.table, ret |-> [msg |-> m, err |-> Nil]]

\* every way applyOp(msg) can go on table t
applyOp(m, t, exists) ==
    LET quiet == [fault |-> "none", err |-> Nil, resp |-> ZeroResp, table |-> t]
    IN IF PreCheck(m) # << >>
       THEN {Outcome(m, << >>, quiet, [errs |-> PreCheck(m), consulted |-> FALSE])}
       ELSE IF StoreCall(m) = NoCall
            THEN {Outcome(m, << >>, quiet, Report(Nil, ZeroResp))}
            ELSE {Outcome(m, <<StoreCall(m)>>, o, Report(o.err, o.resp))
                    : o \in RunWrite(StoreCall(m), t, exists)}

(***************************************************************************)
(* setupClient: connect, drop the table, create it, select the database.   *)
(***************************************************************************)
Database == "db"
NoSession == [open |-> FALSE, db |-> ""]
Connected == [open |-> TRUE, db |-> ""]
Use(c, db) == [c EXCEPT !.db = db]

RefusedErr == <<"dial tcp: connection refused">>
Step(call, ok) == [call |-> call, ok |-> ok]

TableDrop(st, fault) ==
    IF ~fault /\ st.exists
    THEN [exists |-> FALSE, table |-> EmptyTable, ok |-> TRUE]
    ELSE [exists |-> st.exists, table |-> st.table, ok |-> FALSE]

TableCreate(st, fault) ==
    IF ~fault /\ ~st.exists
    THEN [exists |-> TRUE, table |-> EmptyTable, ok |-> TRUE]
    ELSE [exists |-> st.exists, table |-> st.table, ok |-> FALSE]

\* variant: the error of Connect not checked
setupClientUnchecked(connErr, dropFault, createFault, t, exists) ==
    LET d == TableDrop([exists |-> exists, table |-> t], dropFault)
        c == TableCreate(d, createFault)
    IN [client |-> Use(Connected, Database), err |-> Nil,
        log |-> <<Step("connect", connErr = Nil), Step("drop", d.ok),
                  Step("create", c.ok), Step("use", TRUE)>>,
        exists |-> c.exists, table |-> c.table]

\* variant: the table created before it is dropped
setupClientCreateFirst(connErr, dropFault, createFault, t, exists) ==
    IF connErr # Nil
    THEN [client |-> NoSession, err |-> <<"unable to connect: ">> \o connErr,
          log |-> <<Step("connect", FALSE)>>, exists |-> exists, table |-> t]
    ELSE LET c == TableCreate([exists |-> exists, table |-> t], createFault)
             d == TableDrop(c, dropFault)
         IN [client |-> Use(Connected, Database), err |-> Nil,
             log |-> <<Step("connect", TRUE), Step("create", c.ok),
                       Step("drop", d.ok), Step("use", TRUE)>>,
             exists |-> d.exists, table |-> d.table]

\* variant: the error of the drop returned
setupClientDropFatal(connErr, dropFault, createFault, t, exists) ==
    IF connErr # Nil
    THEN [client |-> NoSession, err |-> <<"unable to connect: ">> \o connErr,
          log |-> <<Step("connect", FALSE)>>, exists |-> exists, table |-> t]
    ELSE LET d == TableDrop([exists |-> exists, table |-> t], dropFault)
             c == TableCreate(d, createFault)
         IN IF ~d.ok
            THEN [client |-> NoSession, err |-> <<"unable to drop table">>,
                  log |-> <<Step("connect", TRUE), Step("drop", FALSE)>>,
                  exists |-> d.exists, table |-> d.table]
            ELSE [client |-> Use(Connected, Database), err |-> Nil,
                  log |-> <<Step("connect", TRUE), Step("drop", d.ok),
                            Step("create", c.ok), Step("use", TRUE)>>,
                  exists |-> c.exists, table |-> c.table]

\* variant: the database selected before the table is reset
setupClientUseFirst(connErr, dropFault, createFault, t, exists) ==
    IF connErr # Nil
    THEN [client |-> NoSession, err |-> <<"unable to connect: ">> \o connErr,
          log |-> <<Step("connect", FALSE)>>, exists |-> exists, table |-> t]
    ELSE LET d == TableDrop([exists |-> exists, table |-> t], dropFault)
             c == TableCreate(d, createFault)
         IN [client |-> Use(Connected, Database), err |-> Nil,
             log |-> <<Step("connect", TRUE), Step("use", TRUE),
                       Step("drop", d.ok), Step("create", c.ok)>>,
             exists |-> c.exists, table |-> c.table]

setupClient(connErr, dropFault, createFault, t, exists) ==
    IF connErr # Nil
    THEN [client |-> NoSession, err |-> <<"unable to connect: ">> \o connErr,
          log |-> <<Step("connect", FALSE)>>, exists |-> exists, table |-> t]
    ELSE LET d == TableDrop([exists |-> exists, table |-> t], dropFault)
             c == TableCreate(d, createFault)
         IN [client |-> Use(Connected, Database), err |-> Nil,
             log |-> <<Step("connect", TRUE), Step("drop", d.ok),
                       Step("create", c.ok), Step("use", TRUE)>>,
             exists |-> c.exists, table |-> c.table]

(***************************************************************************)
(* The state machine.                                                      *)
(*   pc         "new", "listening", "failed" (Listen returned the connect  *)
(*              error) or "stopped"                                        *)
(*   client     r.client                                                   *)
(*   table, tableExists   the store's table                                *)
(*   setupLog   the calls of the latest setupClient, in order              *)
(*   listenRet  what the latest Listen returned, once it has               *)
(*   pipeErr    what the latest Listen or applyOp sent on r.pipe.Err       *)
(*   last       the latest applyOp of this run: its message, the table     *)
(*              before it, its store call and what came back               *)
(***************************************************************************)
NoEvent ==
    [valid |-> FALSE, msg |-> NoMsg, pre |-> EmptyTable, calls |-> << >>,
     fault |-> "none", err |-> Nil, resp |-> ZeroResp, consulted |-> FALSE,
     ret |-> [msg |-> NoMsg, err |-> Nil]]

Blocked == [returned |-> FALSE, err |-> Nil]
Returned(e) == [returned |-> TRUE, err |-> e]

InitTables ==
    {EmptyTable,
     [EmptyTable EXCEPT ![StrId(1)] = [kind |-> "doc", id |-> StrId(1), x |-> 1]]}

Init ==
    /\ pc = "new"
    /\ client = NoSession
    /\ tableExists \in BOOLEAN
    /\ table \in (IF tableExists THEN InitTables ELSE {EmptyTable})
    /\ setupLog = << >>
    /\ listenRet = Blocked
    /\ pipeErr = << >>
    /\ last = NoEvent

Listen ==
    /\ pc \in {"new", "failed", "stopped"}
    /\ \E connErr \in {Nil, RefusedErr}, dropFault \in BOOLEAN, createFault \in BOOLEAN :
         LET s == setupClient(connErr, dropFault, createFault, table, tableExists)
         IN /\ client' = s.client
            /\ setupLog' = s.log
            /\ table' = s.table
            /\ tableExists' = s.exists
            /\ IF s.err # Nil
               THEN /\ pipeErr' = <<PlainError(s.err)>>
                    /\ listenRet' = Returned(s.err)
                    /\ pc' = "failed"
               ELSE /\ pipeErr' = << >>
                    /\ listenRet' = Blocked
                    /\ pc' = "listening"
    /\ last' = NoEvent

Apply ==
    /\ pc = "listening"
    /\ \E m \in Msgs : \E o \in applyOp(m, table, tableExists) :
         /\ table' = o.table
         /\ pipeErr' = o.errs
         /\ last' = [valid |-> TRUE, msg |-> m, pre |-> table, calls |-> o.calls,
                     fault |-> o.fault, err |-> o.err, resp |-> o.resp,
                     consulted |-> o.consulted, ret |-> o.ret]
    /\ UNCHANGED <<pc, client, tableExists, setupLog, listenRet>>

Stop ==
    /\ pc = "listening"
    /\ pc' = "stopped"
    /\ listenRet' = Returned(Nil)
    /\ UNCHANGED <<client, tableExists, table, setupLog, pipeErr, last>>

Next == Listen \/ Apply \/ Stop

Spec == Init /\ [][Next]_vars

TypeOK ==
    /\ pc \in {"new", "listening", "failed", "stopped"}
    /\ tableExists \in BOOLEAN
    /\ \A k \in Keys : table[k] = Absent \/ (table[k].kind = "doc" /\ table[k].id = k)
    /\ Len(pipeErr) <= 1

(***************************************************************************)
(* Properties.                                                             *)
(***************************************************************************)
StoreError(e) == NewError(ERROR, Path, MsgStore, ErrRecord(e))
Rejected(str, m) == NewError(ERROR, Path, str, DataRecord(m.Data))
Composed(first) == <<"problem inserting docs", "\n">> \o first
HasKey(m) == IsMap(m) /\ m.Data.id \in Keys
OthersUnchanged(k) == \A o \in Keys \ {k} : table[o] = last.pre[o]

C2_MalformedPayload ==
    (last.valid /\ last.msg.Op \in {Insert, Update} /\ ~IsMap(last.msg)) =>
        /\ pipeErr = <<Rejected(MsgNotDocument, last.msg)>>
        /\ last.calls = << >>
        /\ table = last.pre

C2_Witness ==
    /\ last.valid /\ last.msg.Op = Update /\ last.msg.Data.kind = "scalar"
    /\ Len(pipeErr) = 1 /\ table # EmptyTable

Succeeded ==
    /\ IsMap(last.msg)
    /\ last.msg.Op = Delete => last.msg.Data.id.t \in {"str", "num"}
    /\ last.err = Nil
    /\ last.resp.Errors = 0 \/ Contains(last.resp.FirstError, DupKey)

C5_DuplicateInsertSuppressed ==
    /\ (last.valid /\ last.msg.Op = Insert /\ HasKey(last.msg)
          /\ last.fault = "none" /\ last.pre[last.msg.Data.id] # Absent) =>
            (pipeErr = << >> /\ table = last.pre)
    /\ last.valid =>
         \A k \in Keys :
            (last.pre[k] # Absent /\ table[k] # Absent /\ table[k] # last.pre[k])
               => last.msg.Op = Update

C5_Witness ==
    /\ last.valid /\ last.msg.Op = Insert /\ HasKey(last.msg)
    /\ last.fault = "none"
    /\ last.pre[last.msg.Data.id] \notin {Absent, last.msg.Data}
    /\ last.resp.Errors = 1 /\ pipeErr = << >>

\* C6: when applyOp interprets a write response, it sends an error record
\* exactly when the error count is not zero and the first error does not
\* contain "Duplicate primary key"; the record then carries "problem
\* inserting docs" followed by the first error.
C6_ResponseInterpretation ==
    (last.valid /\ last.consulted) =>
        IF last.resp.Errors # 0 /\ ~Contains(last.resp.FirstError, DupKey)
        THEN pipeErr = <<StoreError(Composed(last.resp.FirstError))>>
        ELSE pipeErr = << >>

C6_Witness ==
    /\ last.valid /\ last.consulted
    /\ last.resp.Errors # 0 /\ Contains(last.resp.FirstError, DupKey)
    /\ pipeErr = << >>

\* C7: after an update of a document d with an identifier that the store
\* acknowledged without errors, the table holds exactly d under that
\* identifier, whatever was there before, every other document is as it was
\* and no error record is sent.
C7_UpdateReplaces ==
    (last.valid /\ last.msg.Op = Update /\ HasKey(last.msg)
       /\ last.err = Nil /\ last.resp.Errors = 0) =>
        /\ table[last.msg.Data.id] = last.msg.Data
        /\ OthersUnchanged(last.msg.Data.id)
        /\ pipeErr = << >>

\* the update {id: "1", x: 2} applied to a table holding {id: "1", x: 1}
C7_Witness ==
    /\ last.valid /\ last.msg.Op = Update /\ pipeErr = << >>
    /\ last.err = Nil /\ last.resp.Errors = 0
    /\ last.msg.Data = [kind |-> "doc", id |-> StrId(1), x |-> 2]
    /\ last.pre = [EmptyTable EXCEPT ![StrId(1)] = [kind |-> "doc", id |-> StrId(1), x |-> 1]]
    /\ table = [EmptyTable EXCEPT ![StrId(1)] = [kind |-> "doc", id |-> StrId(1), x |-> 2]]

\* an applyOp of message m directly after an applyOp of m, the store working
\* both times
AppliedTwice(m) ==
    /\ pc = "listening" /\ pc' = "listening"
    /\ last.valid /\ last.msg = m /\ last.fault = "none"
    /\ last'.valid /\ last'.msg = m /\ last'.fault = "none"

\* C8 as stated: the same update (of a document) applied twice in sequence,
\* the store working, leaves the table after the second as after the first,
\* and neither sends an error record.
C8_Original ==
    [][\A m \in Msgs :
         (m.Op = Update /\ IsMap(m) /\ AppliedTwice(m)) =>
            (table' = table /\ pipeErr = << >> /\ pipeErr' = << >>)]_vars

\* C8, amended: the same holds of an update whose document has a string or
\* a number as its identifier.
C8_UpdateIdempotent ==
    [][\A m \in Msgs :
         (m.Op = Update /\ HasKey(m) /\ AppliedTwice(m)) =>
            (table' = table /\ pipeErr = << >> /\ pipeErr' = << >>)]_vars

\* an update applied to a table that already holds its document
C8_Witness ==
    /\ last.valid /\ last.msg.Op = Update /\ HasKey(last.msg)
    /\ last.fault = "none" /\ pipeErr = << >>
    /\ last.pre[last.msg.Data.id] = last.msg.Data
    /\ table = last.pre

\* C9 as stated: a delete whose identifier has a string form, the store
\* working, makes exactly one delete call; afterwards the table holds no
\* document with the identifier of the event and every other document is as
\* it was.
C9_DeleteRemoves ==
    (last.valid /\ last.msg.Op = Delete /\ IDString(last.msg).ok
       /\ last.fault = "none") =>
        /\ Len(last.calls) = 1 /\ last.calls[1].kind = "delete"
        /\ table[last.msg.Data.id] = Absent
        /\ OthersUnchanged(last.msg.Data.id)

\* C10: when Connect fails, setupClient makes no further call, no session is
\* stored, Listen sends the "unable to connect" error on the error channel
\* and returns it, and no event is applied.
C10_ConnectFailure ==
    (setupLog # << >> /\ ~setupLog[1].ok) =>
        /\ setupLog = <<Step("connect", FALSE)>>
        /\ client = NoSession
        /\ listenRet.returned /\ listenRet.err # Nil
        /\ listenRet.err[1] = "unable to connect: "
        /\ pipeErr = <<PlainError(listenRet.err)>>
        /\ pc = "failed" /\ ~last.valid

C10_Witness ==
    /\ pc = "failed" /\ setupLog = <<Step("connect", FALSE)>>
    /\ table # EmptyTable /\ Len(pipeErr) = 1

\* the calls of the latest setupClient, by name, and whether one succeeded
SetupCalls == [i \in 1..Len(setupLog) |-> setupLog[i].call]
StepOk(call) == \E i \in 1..Len(setupLog) : setupLog[i] = Step(call, TRUE)
Opened == pc = "listening" /\ ~last.valid
Usable == client = Use(Connected, Database) /\ tableExists

\* C11 as stated: after every Listen that got past Connect the table exists
\* and is empty, whatever it held before.
C11_Original ==
    Opened => (Usable /\ table = EmptyTable)

\* C11, amended: after every Listen that got past Connect and whose create
\* call succeeded, the session is usable and the table exists and is empty,
\* whatever it held before.
C11_ResetLeavesEmpty ==
    (Opened /\ StepOk("create")) => (Usable /\ table = EmptyTable)

\* a Listen that dropped an existing table and created it again
C11_Witness ==
    /\ Opened /\ StepOk("drop") /\ StepOk("create")
    /\ Usable /\ table = EmptyTable

\* C12: whenever Connect succeeds, setupClient goes on to drop, create and
\* use whether the drop and the create succeed or fail, the session is
\* stored, Listen sends no error and goes on to listen.
C12_ResetNeverFatal ==
    (setupLog # << >> /\ setupLog[1].ok) =>
        /\ SetupCalls = <<"connect", "drop", "create", "use">>
        /\ client = Use(Connected, Database)
        /\ pc \in {"listening", "stopped"}
        /\ listenRet.err = Nil
        /\ Opened => pipeErr = << >>

\* the drop and the create both failed and the adaptor listens
C12_Witness ==
    /\ Opened /\ setupLog[1].ok /\ ~StepOk("drop") /\ ~StepOk("create")
    /\ table # EmptyTable /\ pipeErr = << >>

\* C13 as stated: once the adaptor is stopped the session is closed.
C13_StopClosesSession ==
    pc = "stopped" => ~client.open

\* C14 as stated: every error record an applyOp sends carries the level,
\* the path of the adaptor, a message and, as its record, the payload of the
\* event.
C14_RecordCarriesPayload ==
    last.valid =>
        \A i \in 1..Len(pipeErr) :
            /\ pipeErr[i].lvl = ERROR
            /\ pipeErr[i].path = Path
            /\ pipeErr[i].str # ""
            /\ pipeErr[i].record = DataRecord(last.msg.Data)

\* C15: the calls of setupClient are connect, drop, create, use in this
\* order, each once, or connect alone when it fails; an event is applied
\* only after all four, and the call of an applyOp is a delete or an insert,
\* never a drop or a create.
C15_SetupOrder ==
    /\ SetupCalls \in {<< >>, <<"connect">>, <<"connect", "drop", "create", "use">>}
    /\ pc \in {"listening", "stopped"} =>
          SetupCalls = <<"connect", "drop", "create", "use">>
    /\ last.valid =>
          /\ pc \in {"listening", "stopped"}
          /\ \A i \in 1..Len(last.calls) : last.calls[i].kind \in {"delete", "insert"}

C15_Witness ==
    /\ last.valid /\ last.calls # << >>
    /\ SetupCalls = <<"connect", "drop", "create", "use">>

\* the fold: insert adds the document if its identifier is absent, update
\* sets the identifier to the document, delete removes the identifier
Fold(t, m) ==
    LET k == m.Data.id
    IN CASE m.Op = Insert -> IF t[k] = Absent THEN [t EXCEPT ![k] = m.Data] ELSE t
         [] m.Op = Update -> [t EXCEPT ![k] = m.Data]
         [] m.Op = Delete -> [t EXCEPT ![k] = Absent]
         [] OTHER -> t

\* an insert, update or delete of a document whose identifier is a string
\* or a number
WellFormed(m) == m.Op \in {Insert, Update, Delete} /\ HasKey(m)

\* C16 as stated: in a session opened on an empty table, the store working,
\* every well-formed event takes the table to the fold of the event over the
\* table before it, and sends no error record.
C16_FoldRefinement ==
    (last.valid /\ StepOk("create") /\ last.fault = "none" /\ WellFormed(last.msg)) =>
        (table = Fold(last.pre, last.msg) /\ pipeErr = << >>)

\* C17: an event with a document payload whose operation is none of insert,
\* update, delete makes no store call, leaves the table as it was, sends no
\* error record and is returned with a nil error.
C17_OtherOpIgnored ==
    (last.valid /\ IsMap(last.msg) /\ last.msg.Op \notin {Insert, Update, Delete}) =>
        /\ last.calls = << >>
        /\ table = last.pre
        /\ pipeErr = << >>
        /\ last.ret.err = Nil

C17_Witness ==
    /\ last.valid /\ last.msg.Op = Command /\ IsMap(last.msg)
    /\ table # EmptyTable /\ pipeErr = << >>

\* C18: an applyOp makes at most one store call and returns the message it
\* was given, operation and payload as received, on every path.
C18_OneCallSameMessage ==
    last.valid =>
        /\ Len(last.calls) <= 1
        /\ last.ret.msg = last.msg

C18_Witness ==
    /\ last.valid /\ last.err # Nil /\ Len(last.calls) = 1
    /\ last.ret.msg = last.msg /\ Len(pipeErr) = 1

=============================================================================
